---- MODULE Spec2Model ----
(***************************************************************************)
(* Model of solana_token_detector.py: the risk classifier, the record      *)
(* store (safe_to_buy.json), the configuration file and the polling loop   *)
(* of start_monitoring.                                                    *)
(*                                                                         *)
(* An optional value (Python's None or a missing key) is a sequence of     *)
(* length 0 or 1.  A file is a record [state, data] whose state is         *)
(* "missing", "corrupt" (present but json.load raises), "ok", or, for a    *)
(* file written by something else than this program, "notarray" (a record  *)
(* file holding a JSON value that is not an array) and "nokey" (a          *)
(* configuration file holding a JSON object without "score_threshold").    *)
(***************************************************************************)
EXTENDS Integers, Sequences, FiniteSets, TLC

\* ---------------------------------------------------------------- bounds
\* Longest discovery result the endpoint returns in one cycle.
MaxTokens == 2
\* Number of discovery fetches over the life of the record file.
MaxCycles == 2
\* Half-width of the window of scores and thresholds around 50 given to
\* the classifier.
Span == 4

\* ------------------------------------------------------------- constants
\* The fixed MEDIUM/HIGH boundary of classify_risk.
MediumFloor == 50
\* Bounds enforced by edit_configuration.
ThresholdMin == 1
ThresholdMax == 100
IntervalMin == 5
IntervalMax == 300
TimeoutMin == 10
TimeoutMax == 120

None == <<>>
Some(x) == <<x>>

Mints == {"A", "B"}
\* token.get("mint") of a token without a mint (missing key, None or "").
NoMint == ""
Tokens == [mint : Mints \cup {NoMint}]
TokenSeqs == UNION {[1..n -> Tokens] : n \in 0..MaxTokens}

\* score_normalised values the summary endpoint returns.
Scores == {45, 85}

\* ----------------------------------------------------------- classifier
\* A faulty variant: it compares with >= where the code compares with >.
classify_risk_ge(score_normalised, threshold) ==
    IF score_normalised = None THEN "UNKNOWN"
    ELSE IF score_normalised[1] >= threshold THEN "LOW"
    ELSE IF score_normalised[1] >= MediumFloor THEN "MEDIUM"
    ELSE "HIGH"

classify_risk(score_normalised, threshold) ==
    IF score_normalised = None THEN "UNKNOWN"
    ELSE IF score_normalised[1] > threshold THEN "LOW"
    ELSE IF score_normalised[1] >= MediumFloor THEN "MEDIUM"
    ELSE "HIGH"

\* The recommendation table of format_report.
recommendation(risk) ==
    CASE risk = "LOW" -> "SAFE_TO_BUY"
      [] risk = "MEDIUM" -> "CAUTION_ADVISED"
      [] risk = "HIGH" -> "HIGH_RISK_DONT_BUY"
      [] risk = "UNKNOWN" -> "CAUTION_ADVISED"

\* The part of the console report the tier decides.  A faulty variant
\* classifies against the default threshold instead of the one passed in.
format_report_default_threshold(token, summary, threshold) ==
    LET risk == classify_risk(summary.score_normalised, 81)
    IN [mint |-> token.mint, risk |-> risk,
        recommendation |-> recommendation(risk)]

format_report(token, summary, threshold) ==
    LET risk == classify_risk(summary.score_normalised, threshold)
    IN [mint |-> token.mint, risk |-> risk,
        recommendation |-> recommendation(risk)]

\* ------------------------------------------------------- configuration
DefaultThreshold == 81
DefaultInterval == 30
DefaultTimeout == 30
DefaultConfigValue ==
    [score_threshold |-> DefaultThreshold,
     polling_interval |-> DefaultInterval,
     api_timeout |-> DefaultTimeout]

MissingFile(d) == [state |-> "missing", data |-> d]
CorruptFile(d) == [state |-> "corrupt", data |-> d]
OkFile(d) == [state |-> "ok", data |-> d]
NotArrayFile(d) == [state |-> "notarray", data |-> d]
NoKeyFile(d) == [state |-> "nokey", data |-> d]

\* load_config: the value returned, given the file and the module-level
\* DEFAULT_CONFIG dictionary.
load_config(file, defaults) ==
    IF file.state \in {"ok", "nokey"} THEN file.data ELSE defaults

\* load_config returns the DEFAULT_CONFIG object itself, not a copy, when
\* the file is missing or unreadable.
load_config_is_default(file) == file.state \notin {"ok", "nokey"}

\* Lines 186-187: config["score_threshold"] raises KeyError when the
\* parsed object has no such key.
config_lacks_key(file) == file.state = "nokey"

\* The configuration file after load_config: created when missing.
load_config_file(file, defaults) ==
    IF file.state = "missing" THEN OkFile(defaults) ELSE file

\* ---------------------------------------------------------- record store
\* load_json: [] when the file is missing, unreadable or unparsable.
load_json(file, readOk) ==
    IF file.state = "missing" THEN <<>>
    ELSE IF ~readOk \/ file.state = "corrupt" THEN <<>>
    ELSE file.data

\* save_json: the file afterwards.  "ok": written in full.  "refused":
\* makedirs or open raised, the file is untouched.  "partial": open
\* truncated the file and the write stopped before the document was
\* complete.
WriteOutcomes == {"ok", "refused", "partial"}
save_json(file, data, outcome) ==
    CASE outcome = "ok" -> OkFile(data)
      [] outcome = "refused" -> file
      [] outcome = "partial" -> CorruptFile(<<>>)

\* load_json got past open and json.load and hands back what it parsed.
load_json_parsed(file, readOk) ==
    file.state \in {"ok", "notarray"} /\ readOk

\* load_json absorbed an error of open or json.load (lines 88-90).
load_json_failed(file, readOk) ==
    file.state # "missing" /\ ~load_json_parsed(file, readOk)

\* Lines 178-180 on what load_json returned: a value that is not a list
\* cannot be iterated (TypeError) or has no append (AttributeError).
existing_is_list(file, readOk) ==
    ~(file.state = "notarray" /\ load_json_parsed(file, readOk))

MintsOf(existing) == {existing[i].mint : i \in DOMAIN existing}

\* Line 179: the entry's mint is not among the stored mints.
entry_is_new(existing, entry) == entry.mint \notin MintsOf(existing)

\* Line 180: the collection handed to save_json.
appended(existing, entry) == Append(existing, entry)

\* append_if_not_exists: the file afterwards, and whether it raised.
append_if_not_exists(file, entry, readOk, outcome) ==
    LET existing == load_json(file, readOk)
    IN IF ~existing_is_list(file, readOk) THEN file
       ELSE IF entry_is_new(existing, entry)
       THEN save_json(file, appended(existing, entry), outcome)
       ELSE file

\* save_json was reached (line 181).
append_saves(file, entry, readOk) ==
    /\ existing_is_list(file, readOk)
    /\ entry_is_new(load_json(file, readOk), entry)

\* A faulty variant swallows the error of save_json.
append_raises_swallowed(file, entry, readOk, outcome) == FALSE

append_raises(file, entry, readOk, outcome) ==
    \/ ~existing_is_list(file, readOk)
    \/ append_saves(file, entry, readOk) /\ outcome # "ok"

\* The exception append_if_not_exists raises, when it raises.
append_error(file, entry, readOk, outcome) ==
    IF ~existing_is_list(file, readOk) THEN "AttributeError" ELSE "OSError"

\* -------------------------------------------------------- token source
\* An HTTP exchange: raised is TRUE when requests.get raised a transport
\* error or a timeout (there is no status then), else status is the code.
OkStatus == 200
HttpStatuses == {200, 500}
RaisedResponse(b) == [raised |-> TRUE, status |-> 200, body |-> b]

DiscoveryResponses ==
    [raised : {FALSE}, status : HttpStatuses, body : TokenSeqs]
        \cup {RaisedResponse(<<>>)}

\* A faulty variant leaves out raise_for_status: the body of an error
\* response is parsed like any other.
fetch_new_tokens_unchecked(response) == response.body

\* raise_for_status raises for the codes 400..599; every RequestException
\* becomes [].
fetch_new_tokens(response) ==
    IF response.raised \/ response.status \in 400..599
    THEN <<>>
    ELSE response.body

\* Lines 100-106: a transport error, a timeout and the HTTPError of
\* raise_for_status are all RequestExceptions and are caught at line 104;
\* none leaves fetch_new_tokens.  A faulty variant catches the errors of
\* requests.get only, so that the HTTPError escapes.
fetch_new_tokens_raises_http(response) ==
    ~response.raised /\ response.status \in 400..599

fetch_new_tokens_raises(response) == FALSE

\* timeout=30 of both requests.get calls (lines 101 and 112).
RequestTimeout == 30

\* A summary document: {} (empty), or one with an optional score.
EmptySummary == [empty |-> TRUE, score_normalised |-> None]
Summaries ==
    {EmptySummary} \cup
    [empty : {FALSE}, score_normalised : {None} \cup {Some(s) : s \in Scores}]

SummaryResponses ==
    [raised : {FALSE}, status : {OkStatus}, body : Summaries]
        \cup {[raised |-> FALSE, status |-> 500,
               body |-> [empty |-> FALSE, score_normalised |-> Some(85)]],
              RaisedResponse(EmptySummary)}

fetch_token_summary(res) ==
    IF res.raised THEN EmptySummary
    ELSE IF res.status = OkStatus THEN res.body
    ELSE EmptySummary

\* Line 202: the token is passed over.  A faulty variant forgets the
\* processed set.
skip_token_no_dedup(mint, done) == mint = NoMint

skip_token(mint, done) == mint = NoMint \/ mint \in done

\* Line 206, negated: the summary is usable.  A faulty variant treats
\* every summary as usable.
summary_available_always(s) == TRUE

summary_available(s) == ~s.empty

\* Line 207: the processed set after an unavailable summary.  A faulty
\* variant leaves the mint unmarked.
mark_unavailable_forgets(done, mint) == done

mark_unavailable(done, mint) == done \cup {mint}

\* Line 228: the entry is stored.  A faulty variant stores everything
\* that is not HIGH.
should_store_not_high(risk) == risk # "HIGH"

should_store(risk) == risk = "LOW"

\* ---------------------------------------------------------------- state
VARIABLES
    pc,             \* where the program is: "menu", inside start_monitoring
                    \* ("poll", "loop", "fetched", "decide", "report",
                    \* "sleep"), "stopped" or "crashed"
    configFile,     \* config.json
    DEFAULT_CONFIG, \* the module-level dictionary, mutable through aliases
    recordFile,     \* safe_to_buy.json
    threshold,      \* local of start_monitoring
    interval,       \* local of start_monitoring
    processed,      \* local of start_monitoring
    tokens,         \* local of start_monitoring
    now_str,        \* local of start_monitoring; the clock read at each poll
    idx,            \* position of the for loop in tokens
    summary,        \* local of start_monitoring
    entry,          \* local of start_monitoring
    reports,        \* the reports printed in this run, in order
    \* history of the current run, read by the properties only
    discoveryFailed,\* the discovery exchange of this cycle failed
    summaryFailed,  \* the summary exchange just made failed
    fetchCount,     \* per mint: fetch_token_summary calls in this run
    processedAtPoll,\* processed when the current cycle began
    reportsAtPoll,  \* Len(reports) when the current cycle began
    available,      \* mints whose summary was usable in this cycle
    lowThisRun,     \* mints classified LOW in this run
    writtenThisRun, \* mints whose entry this run wrote to the record file
    \* history of the record file, read by the properties only
    everLow,        \* mints classified LOW in any run
    firstAppended,  \* per mint: the entry of the first call of
                    \* append_if_not_exists that returned, if any
    appendCalls,    \* per mint: such calls so far, counted up to 2
    \* history of the process and of its last requests and store call
    failure,        \* the exception that ended the process, or "none"
    storeRead,      \* load_json in the store call of the current token:
                    \* "none" (not called), "ok" or "failed"
    storeWrite,     \* save_json in that call: "none" (not called) or its
                    \* outcome
    requestTimeout, \* the timeout of the last request of this run, if any
    loadedTimeout,  \* api_timeout of the configuration start_monitoring
                    \* loaded
    \* the classifier on its own
    score_in, threshold_in, risk_out,
    \* edit_configuration, step by step
    editConfig,     \* config, the local of edit_configuration
    configAliased,  \* that local is the DEFAULT_CONFIG object itself
    edit_input,     \* the last menu choice and the text typed for it
    message,        \* what edit_configuration printed about it
    \* two processes in append_if_not_exists on one record file
    writers,        \* per process: where it is, and its locals
    completed,      \* entries whose save_json returned, in any process
    raced           \* a save_json ran while another process held a loaded
                    \* collection

configVars == <<configFile, DEFAULT_CONFIG>>
loopVars == <<threshold, interval, processed, tokens, idx, summary, entry,
              reports>>
runHistory == <<discoveryFailed, summaryFailed, fetchCount, processedAtPoll, reportsAtPoll,
                available, lowThisRun, writtenThisRun>>
fileHistory == <<everLow, firstAppended, appendCalls>>
storeHistory == <<storeRead, storeWrite>>
timeoutHistory == <<requestTimeout, loadedTimeout>>
classifyVars == <<score_in, threshold_in, risk_out>>
editVars == <<editConfig, configAliased, edit_input, message>>
writerVars == <<writers, completed, raced>>
\* What no step of start_monitoring touches.
otherVars == <<classifyVars, editVars, writerVars>>
vars == <<pc, configVars, recordFile, loopVars, now_str, runHistory,
          fileHistory, failure, storeHistory, timeoutHistory, otherVars>>

NoEntry == [mint |-> NoMint, score_normalised |-> None, risk |-> "UNKNOWN",
            detected_at |-> 0]

Running == {"poll", "loop", "fetched", "decide", "report", "sleep"}

\* The locals of the for loop before the first poll, and the history of a
\* cycle that has not fetched anything.
FreshCycle ==
    /\ tokens' = <<>>
    /\ idx' = 1
    /\ summary' = EmptySummary
    /\ entry' = NoEntry
    /\ discoveryFailed' = FALSE
    /\ summaryFailed' = FALSE
    /\ fetchCount' = [m \in Mints |-> 0]
    /\ processedAtPoll' = {}
    /\ reportsAtPoll' = 0
    /\ available' = {}

\* The locals of start_monitoring before its first poll, and the history
\* of a run that has not fetched anything.
FreshRun ==
    /\ FreshCycle
    /\ processed' = {}
    /\ reports' = <<>>
    /\ lowThisRun' = {}
    /\ writtenThisRun' = {}

\* start_monitoring is not running: it has no locals.
NotRunning ==
    /\ FreshRun
    /\ threshold' = DefaultThreshold
    /\ interval' = DefaultInterval

\* The text typed at a prompt of edit_configuration: an integer literal
\* (Some) or something int() rejects (None).
NoInput == [choice |-> 0, text |-> None]

\* A first start: neither file exists yet.
InitFiles ==
    /\ configFile = MissingFile(DefaultConfigValue)
    /\ recordFile = MissingFile(<<>>)

\* The classifier, edit_configuration and the second process are not in
\* use.
ClassifyIdle ==
    /\ score_in = None
    /\ threshold_in = DefaultThreshold
    /\ risk_out = ""

EditIdle ==
    /\ editConfig = DefaultConfigValue
    /\ configAliased = FALSE
    /\ edit_input = NoInput
    /\ message = "none"

WritersIdle ==
    /\ writers = <<>>
    /\ completed = {}
    /\ raced = FALSE

\* The process at the main menu, just started.
InitMonitor ==
    /\ pc = "menu"
    /\ DEFAULT_CONFIG = DefaultConfigValue
    /\ threshold = DefaultThreshold
    /\ interval = DefaultInterval
    /\ processed = {}
    /\ tokens = <<>>
    /\ now_str = 0
    /\ idx = 1
    /\ summary = EmptySummary
    /\ entry = NoEntry
    /\ reports = <<>>
    /\ discoveryFailed = FALSE
    /\ summaryFailed = FALSE
    /\ fetchCount = [m \in Mints |-> 0]
    /\ processedAtPoll = {}
    /\ reportsAtPoll = 0
    /\ available = {}
    /\ lowThisRun = {}
    /\ writtenThisRun = {}
    /\ everLow = {}
    /\ firstAppended = [m \in Mints |-> None]
    /\ appendCalls = [m \in Mints |-> 0]
    /\ failure = "none"
    /\ storeRead = "none"
    /\ storeWrite = "none"
    /\ requestTimeout = None
    /\ loadedTimeout = DefaultTimeout

InitProgram ==
    /\ InitFiles
    /\ InitMonitor

Init ==
    /\ InitProgram
    /\ ClassifyIdle
    /\ EditIdle
    /\ WritersIdle

\* --------------------------------------------------------------- actions
\* Lines 183-193: load the configuration, start with an empty processed set.
StartMonitoring ==
    /\ pc = "menu"
    /\ configFile' = load_config_file(configFile, DEFAULT_CONFIG)
    /\ IF config_lacks_key(configFile)
       THEN /\ pc' = "crashed"
            /\ failure' = "KeyError"
            /\ NotRunning
            /\ UNCHANGED loadedTimeout
       ELSE LET loaded == load_config(configFile, DEFAULT_CONFIG)
            IN /\ threshold' = loaded.score_threshold
               /\ interval' = loaded.polling_interval
               /\ loadedTimeout' = loaded.api_timeout
               /\ FreshRun
               /\ pc' = "poll"
               /\ UNCHANGED failure
    /\ UNCHANGED <<DEFAULT_CONFIG, recordFile, now_str, fileHistory,
                   storeHistory, requestTimeout, otherVars>>

\* Lines 197-198: one discovery fetch and one reading of the clock.
Poll ==
    /\ pc = "poll"
    /\ now_str < MaxCycles
    /\ \E r \in DiscoveryResponses :
        IF fetch_new_tokens_raises(r)
        THEN /\ pc' = "crashed"
             /\ failure' = "RequestException"
             /\ NotRunning
             /\ requestTimeout' = None
             /\ UNCHANGED <<now_str, loadedTimeout>>
        ELSE /\ tokens' = fetch_new_tokens(r)
             /\ discoveryFailed' = (r.raised \/ r.status # OkStatus)
             /\ requestTimeout' = Some(RequestTimeout)
             /\ now_str' = now_str + 1
             /\ idx' = 1
             /\ processedAtPoll' = processed
             /\ reportsAtPoll' = Len(reports)
             /\ available' = {}
             /\ pc' = "loop"
             /\ UNCHANGED <<threshold, interval, processed, summary, entry,
                            reports, summaryFailed, fetchCount, lowThisRun,
                            writtenThisRun, failure, loadedTimeout>>
    /\ UNCHANGED <<configVars, recordFile, fileHistory, storeHistory,
                   otherVars>>

\* Lines 200-205: the next token is passed over, or its summary is fetched.
NextToken ==
    /\ pc = "loop"
    /\ idx <= Len(tokens)
    /\ LET mint == tokens[idx].mint
       IN IF skip_token(mint, processed)
          THEN /\ idx' = idx + 1
               /\ UNCHANGED <<pc, summary, summaryFailed, fetchCount,
                              requestTimeout>>
          ELSE /\ \E res \in SummaryResponses :
                    /\ summary' = fetch_token_summary(res)
                    /\ summaryFailed' = (res.raised \/ res.status # OkStatus)
               /\ requestTimeout' = Some(RequestTimeout)
               /\ fetchCount' = [fetchCount EXCEPT ![mint] = @ + 1]
               /\ pc' = "fetched"
               /\ UNCHANGED idx
    /\ UNCHANGED <<configVars, recordFile, threshold, interval, processed,
                   tokens, now_str, entry, reports, discoveryFailed,
                   processedAtPoll, reportsAtPoll, available, lowThisRun,
                   writtenThisRun, fileHistory, failure, storeHistory,
                   loadedTimeout, otherVars>>

\* Lines 206-226: mark the mint processed; with a usable summary, classify
\* it and build the entry.
ProcessSummary ==
    /\ pc = "fetched"
    /\ summaryFailed' = FALSE
    /\ LET mint == tokens[idx].mint
       IN IF ~summary_available(summary)
          THEN /\ processed' = mark_unavailable(processed, mint)
               /\ idx' = idx + 1
               /\ summary' = EmptySummary
               /\ pc' = "loop"
               /\ UNCHANGED <<entry, available, lowThisRun, everLow>>
          ELSE LET score_norm == summary.score_normalised
                   risk == classify_risk(score_norm, threshold)
               IN /\ processed' = processed \cup {mint}
                  /\ entry' = [mint |-> mint,
                               score_normalised |-> score_norm,
                               risk |-> risk,
                               detected_at |-> now_str]
                  /\ available' = available \cup {mint}
                  /\ lowThisRun' = IF risk = "LOW"
                                   THEN lowThisRun \cup {mint}
                                   ELSE lowThisRun
                  /\ everLow' = IF risk = "LOW"
                                THEN everLow \cup {mint}
                                ELSE everLow
                  /\ pc' = "decide"
                  /\ UNCHANGED <<idx, summary>>
    /\ UNCHANGED <<configVars, recordFile, threshold, interval, tokens,
                   now_str, reports, discoveryFailed, fetchCount,
                   processedAtPoll, reportsAtPoll, writtenThisRun,
                   firstAppended, appendCalls, failure, storeHistory,
                   timeoutHistory, otherVars>>

\* Lines 228-232: a LOW entry goes to append_if_not_exists; an error of
\* save_json leaves start_monitoring, which catches KeyboardInterrupt only,
\* and ends the process.
StoreEntry ==
    /\ pc = "decide"
    /\ IF should_store(entry.risk)
       THEN \E readOk \in BOOLEAN, outcome \in WriteOutcomes :
              LET raises == append_raises(recordFile, entry, readOk, outcome)
                  after == append_if_not_exists(recordFile, entry, readOk,
                                                outcome)
                  m == entry.mint
              IN /\ recordFile' = after
                 /\ storeRead' = IF load_json_failed(recordFile, readOk)
                                 THEN "failed" ELSE "ok"
                 /\ storeWrite' = IF append_saves(recordFile, entry, readOk)
                                  THEN outcome ELSE "none"
                 /\ IF raises
                    THEN /\ pc' = "crashed"
                         /\ failure' = append_error(recordFile, entry,
                                                    readOk, outcome)
                         /\ NotRunning
                         /\ requestTimeout' = None
                         /\ UNCHANGED <<firstAppended, appendCalls>>
                    ELSE /\ pc' = "report"
                         /\ writtenThisRun' =
                              IF after # recordFile
                              THEN writtenThisRun \cup {m}
                              ELSE writtenThisRun
                         /\ firstAppended' =
                              IF firstAppended[m] = None
                              THEN [firstAppended EXCEPT ![m] = Some(entry)]
                              ELSE firstAppended
                         /\ appendCalls' =
                              IF appendCalls[m] < 2
                              THEN [appendCalls EXCEPT ![m] = @ + 1]
                              ELSE appendCalls
                         /\ UNCHANGED <<loopVars, discoveryFailed,
                                        summaryFailed, fetchCount,
                                        processedAtPoll, reportsAtPoll,
                                        available, lowThisRun, failure,
                                        requestTimeout>>
       ELSE /\ pc' = "report"
            /\ UNCHANGED <<recordFile, loopVars, runHistory, firstAppended,
                           appendCalls, failure, storeHistory,
                           requestTimeout>>
    /\ UNCHANGED <<configVars, now_str, everLow, loadedTimeout, otherVars>>

\* Lines 234-236: print the report and go on to the next token.
EmitReport ==
    /\ pc = "report"
    /\ reports' = Append(reports,
                         format_report(tokens[idx], summary, threshold))
    /\ idx' = idx + 1
    /\ summary' = EmptySummary
    /\ entry' = NoEntry
    /\ pc' = "loop"
    /\ storeRead' = "none"
    /\ storeWrite' = "none"
    /\ UNCHANGED <<configVars, recordFile, threshold, interval, processed,
                   tokens, now_str, runHistory, fileHistory, failure,
                   timeoutHistory, otherVars>>

\* The for loop is exhausted.
EndCycle ==
    /\ pc = "loop"
    /\ idx > Len(tokens)
    /\ pc' = "sleep"
    /\ UNCHANGED <<configVars, recordFile, loopVars, now_str, runHistory,
                   fileHistory, failure, storeHistory, timeoutHistory,
                   otherVars>>

\* Line 238: time.sleep(interval) returns.
Sleep ==
    /\ pc = "sleep"
    /\ pc' = "poll"
    /\ UNCHANGED <<configVars, recordFile, loopVars, now_str, runHistory,
                   fileHistory, failure, storeHistory, timeoutHistory,
                   otherVars>>

\* Lines 240-241: Ctrl+C raises KeyboardInterrupt at whatever statement is
\* executing, between or inside the steps of a token.  The handler reads
\* none of the loop's locals; those of the abandoned cycle are dropped.
Interrupt ==
    /\ pc \in Running
    /\ pc' = "stopped"
    /\ FreshCycle
    /\ storeRead' = "none"
    /\ storeWrite' = "none"
    /\ requestTimeout' = None
    /\ UNCHANGED <<configVars, recordFile, threshold, interval, processed,
                   reports, now_str, lowThisRun, writtenThisRun,
                   fileHistory, failure, loadedTimeout, otherVars>>

\* KeyboardInterrupt inside save_json, after open(..., "w") truncated the
\* file and before json.dump finished.
InterruptInSave ==
    /\ pc = "decide"
    /\ should_store(entry.risk)
    /\ \E readOk \in BOOLEAN : append_saves(recordFile, entry, readOk)
    /\ recordFile' = CorruptFile(<<>>)
    /\ pc' = "stopped"
    /\ FreshCycle
    /\ storeRead' = "none"
    /\ storeWrite' = "none"
    /\ requestTimeout' = None
    /\ UNCHANGED <<configVars, threshold, interval, processed, reports,
                   now_str, lowThisRun, writtenThisRun, fileHistory,
                   failure, loadedTimeout, otherVars>>

\* Line 244: Enter is pressed; start_monitoring returns to the menu and
\* its locals are gone.
ReturnToMenu ==
    /\ pc = "stopped"
    /\ pc' = "menu"
    /\ NotRunning
    /\ loadedTimeout' = DefaultTimeout
    /\ UNCHANGED <<configVars, recordFile, now_str, fileHistory, failure,
                   storeHistory, requestTimeout, otherVars>>

\* The process ended (an uncaught error, or Exit) and is started again:
\* module-level state is fresh, the files stay.
Restart ==
    /\ pc \in {"crashed", "exited", "menu"}
    /\ pc' = "menu"
    /\ DEFAULT_CONFIG' = DefaultConfigValue
    /\ NotRunning
    /\ failure' = "none"
    /\ storeRead' = "none"
    /\ storeWrite' = "none"
    /\ requestTimeout' = None
    /\ loadedTimeout' = DefaultTimeout
    /\ UNCHANGED <<configFile, recordFile, now_str, fileHistory,
                   otherVars>>

\* Lines 310, 322, 334: the bounds of the three options.  A faulty
\* variant checks the upper bounds only.
InBounds_upper_only(choice, value) ==
    CASE choice = 1 -> value <= ThresholdMax
      [] choice = 2 -> value <= IntervalMax
      [] choice = 3 -> value <= TimeoutMax

InBounds(choice, value) ==
    CASE choice = 1 -> ThresholdMin <= value /\ value <= ThresholdMax
      [] choice = 2 -> IntervalMin <= value /\ value <= IntervalMax
      [] choice = 3 -> TimeoutMin <= value /\ value <= TimeoutMax

Edited(config, choice, value) ==
    CASE choice = 1 -> [config EXCEPT !.score_threshold = value]
      [] choice = 2 -> [config EXCEPT !.polling_interval = value]
      [] choice = 3 -> [config EXCEPT !.api_timeout = value]

\* Lines 293-348: one visit to edit_configuration that makes the edit
\* `choice` with the integer `value`, whose write succeeds, and then goes
\* back (choice 4).
edit_configuration(choice, value) ==
    /\ pc = "menu"
    /\ LET config == load_config(configFile, DEFAULT_CONFIG)
           aliased == load_config_is_default(configFile)
           loaded == load_config_file(configFile, DEFAULT_CONFIG)
       IN IF InBounds(choice, value)
          THEN /\ configFile' = OkFile(Edited(config, choice, value))
               /\ DEFAULT_CONFIG' = IF aliased
                                    THEN Edited(config, choice, value)
                                    ELSE DEFAULT_CONFIG
          ELSE /\ configFile' = loaded
               /\ UNCHANGED DEFAULT_CONFIG
    /\ UNCHANGED <<pc, recordFile, loopVars, now_str, runHistory,
                   fileHistory, failure, storeHistory, timeoutHistory,
                   otherVars>>

\* Threshold edits tried against the monitor.
ThresholdEdits == {0, 90}

EditThreshold == \E v \in ThresholdEdits : edit_configuration(1, v)

Next ==
    \/ StartMonitoring
    \/ Poll
    \/ NextToken
    \/ ProcessSummary
    \/ StoreEntry
    \/ EmitReport
    \/ EndCycle
    \/ Sleep
    \/ Interrupt
    \/ InterruptInSave
    \/ ReturnToMenu
    \/ Restart
    \/ EditThreshold

Spec == Init /\ [][Next]_vars

\* --------------------------------------------- the monitor, scheduled
\* start_monitoring is straight-line code in one thread: requests.get
\* returns or raises within its timeout and time.sleep returns, so a step
\* of the loop that can be taken is taken unless Ctrl+C comes first.
LoopStep ==
    \/ Poll
    \/ NextToken
    \/ ProcessSummary
    \/ StoreEntry
    \/ EmitReport
    \/ EndCycle
    \/ Sleep

NextRun ==
    \/ StartMonitoring
    \/ LoopStep
    \/ Interrupt
    \/ InterruptInSave

SpecFair == Init /\ [][NextRun]_vars /\ WF_vars(LoopStep)

\* ------------------------------------ edit_configuration, step by step
\* What edit_configuration and the configuration menu never touch.
monitorVars == <<recordFile, loopVars, now_str, runHistory, fileHistory,
                 storeHistory, timeoutHistory>>

\* Lines 310, 322, 334, through int(): text that is no integer literal
\* raises ValueError and never reaches the comparison.
accepts_input(choice, text) ==
    text # None /\ InBounds(choice, text[1])

\* edit_configuration is not running: it has no local.
EditClosed ==
    /\ editConfig' = DefaultConfigValue
    /\ configAliased' = FALSE
    /\ edit_input' = NoInput
    /\ message' = "none"

\* Line 295: config = load_config().  Line 300 reads the three keys.
EditOpen ==
    /\ pc = "menu"
    /\ configFile' = load_config_file(configFile, DEFAULT_CONFIG)
    /\ IF config_lacks_key(configFile)
       THEN /\ pc' = "crashed"
            /\ failure' = "KeyError"
            /\ UNCHANGED editVars
       ELSE /\ pc' = "edit"
            /\ editConfig' = load_config(configFile, DEFAULT_CONFIG)
            /\ configAliased' = load_config_is_default(configFile)
            /\ edit_input' = NoInput
            /\ message' = "none"
            /\ UNCHANGED failure
    /\ UNCHANGED <<DEFAULT_CONFIG, monitorVars, classifyVars, writerVars>>

\* Lines 307-341: one of the options 1-3 with the text typed for it.
\* An accepted value is put into config, which is DEFAULT_CONFIG itself
\* when load_config returned it, and save_config writes the file; an
\* OSError of save_config is caught nowhere.
EditValue(choice, text, outcome) ==
    /\ pc = "edit"
    /\ edit_input' = [choice |-> choice, text |-> text]
    /\ IF accepts_input(choice, text)
       THEN LET edited == Edited(editConfig, choice, text[1])
            IN /\ editConfig' = edited
               /\ DEFAULT_CONFIG' = IF configAliased THEN edited
                                    ELSE DEFAULT_CONFIG
               /\ configFile' = save_json(configFile, edited, outcome)
               /\ IF outcome = "ok"
                  THEN /\ message' = "updated"
                       /\ UNCHANGED <<pc, failure>>
                  ELSE /\ message' = "none"
                       /\ pc' = "crashed"
                       /\ failure' = "OSError"
       ELSE /\ message' = IF text = None THEN "invalid_number"
                          ELSE "out_of_bounds"
            /\ UNCHANGED <<pc, configFile, DEFAULT_CONFIG, editConfig,
                           failure>>
    /\ UNCHANGED <<configAliased, monitorVars, classifyVars, writerVars>>

\* The values typed: the bounds of each option, their neighbours, and
\* text that is not a number.
EditTexts(choice) ==
    {None} \cup
    CASE choice = 1 -> {Some(v) : v \in {ThresholdMin - 1, ThresholdMin,
                                         ThresholdMax, ThresholdMax + 1}}
      [] choice = 2 -> {Some(v) : v \in {IntervalMin - 1, IntervalMin,
                                         IntervalMax, IntervalMax + 1}}
      [] choice = 3 -> {Some(v) : v \in {TimeoutMin - 1, TimeoutMin,
                                         TimeoutMax, TimeoutMax + 1}}

EditSome ==
    \E choice \in 1..3 : \E text \in EditTexts(choice) :
        \E outcome \in WriteOutcomes : EditValue(choice, text, outcome)

\* Ctrl+C inside save_config, after open(..., "w") truncated the file:
\* the value is already in config.  Called from line 491 the
\* KeyboardInterrupt is caught at line 497 and the program goes on at the
\* main menu; called from line 480 it reaches line 503 and the process
\* exits.
EditInterruptInSave ==
    /\ pc = "edit"
    /\ \E choice \in 1..3 : \E text \in EditTexts(choice) :
         /\ accepts_input(choice, text)
         /\ LET edited == Edited(editConfig, choice, text[1])
            IN DEFAULT_CONFIG' = IF configAliased THEN edited
                                 ELSE DEFAULT_CONFIG
    /\ configFile' = CorruptFile(DefaultConfigValue)
    /\ pc' \in {"menu", "exited"}
    /\ EditClosed
    /\ UNCHANGED <<failure, monitorVars, classifyVars, writerVars>>

\* Line 345: option 4 leaves edit_configuration; its local is gone.
EditBack ==
    /\ pc = "edit"
    /\ pc' = "menu"
    /\ EditClosed
    /\ UNCHANGED <<configVars, failure, monitorVars, classifyVars,
                   writerVars>>

\* config.json is deleted while the program waits at the main menu.
RemoveConfigFile ==
    /\ pc = "menu"
    /\ configFile.state # "missing"
    /\ configFile' = MissingFile(DefaultConfigValue)
    /\ UNCHANGED <<pc, DEFAULT_CONFIG, failure, monitorVars, otherVars>>

\* The process is started again after it ended; the edit menu's local is
\* gone with it.
RestartEditor ==
    /\ pc \in {"crashed", "exited"}
    /\ pc' = "menu"
    /\ DEFAULT_CONFIG' = DefaultConfigValue
    /\ failure' = "none"
    /\ EditClosed
    /\ UNCHANGED <<configFile, monitorVars, classifyVars, writerVars>>

InitConfig ==
    /\ configFile \in {MissingFile(DefaultConfigValue),
                       CorruptFile(DefaultConfigValue),
                       OkFile(DefaultConfigValue)}
    /\ recordFile = MissingFile(<<>>)
    /\ InitMonitor
    /\ ClassifyIdle
    /\ EditIdle
    /\ WritersIdle

NextConfig ==
    \/ EditOpen
    \/ EditSome
    \/ EditInterruptInSave
    \/ EditBack
    \/ RemoveConfigFile
    \/ RestartEditor

SpecConfig == InitConfig /\ [][NextConfig]_vars

\* ------------------------------- two monitors on one record file
\* Number of monitor processes started on the same directory.
MaxWriters == 2

\* A process between two calls of append_if_not_exists; done is its
\* processed set.
IdleWriter(done) ==
    [at |-> "idle", existing |-> <<>>, entry |-> NoEntry, done |-> done]

\* The entry process i builds for mint m (lines 217-226).
WriterEntry(i, m) ==
    [mint |-> m, score_normalised |-> Some(85), risk |-> "LOW",
     detected_at |-> i]

\* Line 177 in process i, for a LOW token it has not processed yet:
\* existing = load_json(path), whose read may fail.
WriterLoad(i, m) ==
    /\ i \in DOMAIN writers
    /\ writers[i].at = "idle"
    /\ m \notin writers[i].done
    /\ \E readOk \in BOOLEAN :
         writers' = [writers EXCEPT ![i] =
                       [at |-> "loaded",
                        existing |-> load_json(recordFile, readOk),
                        entry |-> WriterEntry(i, m),
                        done |-> writers[i].done \cup {m}]]
    /\ UNCHANGED <<pc, configVars, failure, monitorVars, classifyVars,
                   editVars, completed, raced>>

\* Lines 178-181 in process i: the mint test on the collection it loaded,
\* then append and save_json.
WriterSave(i) ==
    /\ i \in DOMAIN writers
    /\ writers[i].at = "loaded"
    /\ LET w == writers[i]
       IN IF entry_is_new(w.existing, w.entry)
          THEN /\ recordFile' = save_json(recordFile,
                                          appended(w.existing, w.entry),
                                          "ok")
               /\ raced' = (raced \/ \E j \in DOMAIN writers :
                                       j # i /\ writers[j].at = "loaded")
          ELSE UNCHANGED <<recordFile, raced>>
    /\ completed' = completed \cup {writers[i].entry.mint}
    /\ writers' = [writers EXCEPT ![i] = IdleWriter(writers[i].done)]
    /\ UNCHANGED <<pc, configVars, failure, loopVars, now_str, runHistory,
                   fileHistory, storeHistory, timeoutHistory, classifyVars,
                   editVars>>

InitTwo ==
    /\ InitProgram
    /\ ClassifyIdle
    /\ EditIdle
    /\ \E n \in 1..MaxWriters : writers = [i \in 1..n |-> IdleWriter({})]
    /\ completed = {}
    /\ raced = FALSE

NextTwo ==
    \/ \E i \in 1..MaxWriters : \E m \in Mints : WriterLoad(i, m)
    \/ \E i \in 1..MaxWriters : WriterSave(i)

SpecTwo == InitTwo /\ [][NextTwo]_vars

\* ------------------------------------- the monitor on files it finds
\* config.json as start_monitoring may find it: absent, unparsable, an
\* object without "score_threshold", or a configuration within the bounds
\* of edit_configuration.
ConfigContents ==
    {MissingFile(DefaultConfigValue), CorruptFile(DefaultConfigValue),
     NoKeyFile(DefaultConfigValue), OkFile(DefaultConfigValue)}
        \cup {OkFile([DefaultConfigValue EXCEPT !.api_timeout = t]) :
                 t \in {TimeoutMin, TimeoutMax}}

\* safe_to_buy.json as append_if_not_exists may find it: absent,
\* unparsable, a JSON value that is not an array, or an array of entries.
StoredEntry(m) ==
    [mint |-> m, score_normalised |-> Some(85), risk |-> "LOW",
     detected_at |-> 0]
RecordContents ==
    {MissingFile(<<>>), CorruptFile(<<>>), NotArrayFile(<<>>), OkFile(<<>>)}
        \cup {OkFile(<<StoredEntry(m)>>) : m \in Mints}

InitStored ==
    /\ configFile \in ConfigContents
    /\ recordFile \in RecordContents
    /\ InitMonitor
    /\ ClassifyIdle
    /\ EditIdle
    /\ WritersIdle

NextStored ==
    \/ StartMonitoring
    \/ LoopStep

SpecStored == InitStored /\ [][NextStored]_vars

\* ------------------------------------------------- the classifier alone
ScoreInputs == (MediumFloor - Span)..(MediumFloor + Span) \cup {-1, 0, 100, 101}
ThresholdInputs ==
    (MediumFloor - Span)..(MediumFloor + Span) \cup
        {-1, ThresholdMin, DefaultThreshold, ThresholdMax}

InitClassify ==
    /\ InitProgram
    /\ score_in \in {None} \cup {Some(s) : s \in ScoreInputs}
    /\ threshold_in \in ThresholdInputs
    /\ risk_out = ""
    /\ EditIdle
    /\ WritersIdle

Classify ==
    /\ risk_out = ""
    /\ risk_out' = classify_risk(score_in, threshold_in)
    /\ UNCHANGED <<pc, configVars, recordFile, loopVars, now_str,
                   runHistory, fileHistory, failure, storeHistory,
                   timeoutHistory, score_in, threshold_in, editVars,
                   writerVars>>

NextClassify == Classify

SpecClassify == InitClassify /\ [][NextClassify]_vars

\* ------------------------------------------------------------ properties
Entries(file) == IF file.state = "ok" THEN file.data ELSE <<>>
EntriesOf(file, m) ==
    {i \in DOMAIN Entries(file) : Entries(file)[i].mint = m}
HasEntry(file, m) == EntriesOf(file, m) # {}
ReportedMints == {reports[i].mint : i \in DOMAIN reports}

\* C1, as stated: for a present score s and a threshold t the tier is LOW
\* iff s > t, MEDIUM iff 50 <= s <= t, HIGH iff s < 50; an absent score
\* gives UNKNOWN.
C1_TiersAsStated ==
    risk_out # "" =>
        IF score_in = None
        THEN risk_out = "UNKNOWN"
        ELSE LET s == score_in[1]
                 t == threshold_in
             IN /\ (risk_out = "LOW") <=> (s > t)
                /\ (risk_out = "MEDIUM") <=> (MediumFloor <= s /\ s <= t)
                /\ (risk_out = "HIGH") <=> (s < MediumFloor)

\* C1, amended: LOW iff s > t, MEDIUM iff 50 <= s <= t, HIGH iff s < 50 and
\* s <= t (a score below 50 but above the threshold is LOW); UNKNOWN iff
\* the score is absent.
C1_Tiers ==
    risk_out # "" =>
        IF score_in = None
        THEN risk_out = "UNKNOWN"
        ELSE LET s == score_in[1]
                 t == threshold_in
             IN /\ (risk_out = "LOW") <=> (s > t)
                /\ (risk_out = "MEDIUM") <=> (MediumFloor <= s /\ s <= t)
                /\ (risk_out = "HIGH") <=> (s < MediumFloor /\ s <= t)
                /\ risk_out # "UNKNOWN"

\* A score below 50 that a threshold below 50 makes LOW.
C1_LowBelowFloor ==
    /\ risk_out = "LOW"
    /\ score_in # None
    /\ score_in[1] < MediumFloor

\* C2: once append_if_not_exists has returned twice for a mint, the file
\* holds exactly one entry for that mint, and it is the entry of the first
\* call.  Read in the state right after the later call returned.
C2_FirstSeenKept ==
    (/\ pc = "report"
     /\ should_store(entry.risk)
     /\ appendCalls[entry.mint] >= 2)
    => /\ Cardinality(EntriesOf(recordFile, entry.mint)) = 1
       /\ \A i \in EntriesOf(recordFile, entry.mint) :
            Some(Entries(recordFile)[i]) = firstAppended[entry.mint]

UniqueMints(seq) ==
    \A i, j \in DOMAIN seq : seq[i].mint = seq[j].mint => i = j

\* Every element of old is in new, and two elements of old keep their
\* order in new.
KeptInOrder(old, new) ==
    /\ \A i \in DOMAIN old : \E k \in DOMAIN new : new[k] = old[i]
    /\ \A i, j \in DOMAIN old :
         i < j => \E k, l \in DOMAIN new :
                    k < l /\ new[k] = old[i] /\ new[l] = old[j]

\* C3: the mints in the record file are pairwise distinct, and no step
\* removes, changes or reorders an entry that is in the file.
C3_UniqueAppendOnly ==
    [][/\ UniqueMints(Entries(recordFile'))
       /\ KeptInOrder(Entries(recordFile), Entries(recordFile'))]_vars

\* C4: in one run fetch_token_summary is called at most once per mint, and
\* the processed set only grows while the run lasts.
C4_FetchedOnce ==
    [][/\ \A m \in Mints : fetchCount'[m] <= 1
       /\ (pc \in Running /\ pc' \in Running \cup {"stopped"})
            => processed \subseteq processed']_vars

\* A mint whose summary was unavailable in an earlier cycle comes back and
\* is passed over.
C4_SeenAgain ==
    /\ pc = "sleep"
    /\ \E i \in DOMAIN tokens :
         /\ tokens[i].mint \in processedAtPoll
         /\ tokens[i].mint \notin ReportedMints
         /\ fetchCount[tokens[i].mint] = 1

\* C5: between tokens, every mint that was classified LOW and whose store
\* step returned has an entry in the record file.
C5_StoreComplete ==
    pc \in {"poll", "loop", "sleep"} =>
        \A m \in everLow : appendCalls[m] > 0 => HasEntry(recordFile, m)

\* C6: a step that changes the record file is the store step of an entry
\* whose risk is LOW and whose score is present and above the threshold of
\* the run; a complete write ends with that entry.
C6_OnlyLowStored ==
    [][recordFile' # recordFile =>
         /\ pc = "decide"
         /\ entry.risk = "LOW"
         /\ entry.score_normalised # None
         /\ entry.score_normalised[1] > threshold
         /\ recordFile'.state = "ok" =>
              /\ recordFile'.data # <<>>
              /\ recordFile'.data[Len(recordFile'.data)] = entry]_vars

\* An entry was written by this run, after a token that was not LOW got
\* its report.
C6_LowWritten ==
    /\ pc = "report"
    /\ entry.mint \in writtenThisRun
    /\ HasEntry(recordFile, entry.mint)
    /\ \E i \in DOMAIN reports : reports[i].risk # "LOW"

\* C7: when the summary exchange failed or gave an empty report, the next
\* step of the loop marks the mint processed, prints nothing, leaves the
\* record file alone and moves to the next token.
C7_UnavailableSkipped ==
    [][(/\ pc = "fetched"
        /\ summaryFailed \/ summary.empty
        /\ pc' # "stopped")
       => /\ tokens[idx].mint \in processed'
          /\ reports' = reports
          /\ recordFile' = recordFile
          /\ tokens' = tokens
          /\ idx' = idx + 1
          /\ pc' = "loop"]_vars

\* An unavailable token was passed over and another token follows it.
C7_SkippedThenNext ==
    /\ pc = "loop"
    /\ 1 < idx
    /\ idx <= Len(tokens)
    /\ tokens[idx - 1].mint \in processed \ processedAtPoll
    /\ tokens[idx - 1].mint \notin available
    /\ tokens[idx].mint \notin processed \cup {NoMint}

EmptyDiscovery == discoveryFailed \/ tokens = <<>>

\* C8: in a cycle whose discovery failed or returned an empty list, the
\* poll and the steps after it fetch no summary, print no report and
\* leave the processed set and the record file unchanged.
C8_EmptyCycle ==
    [][/\ (pc = "poll" /\ pc' = "loop" /\ EmptyDiscovery')
         => UNCHANGED <<processed, recordFile, reports, fetchCount>>
       /\ (pc = "loop" /\ EmptyDiscovery /\ pc' # "stopped")
         => /\ pc' = "sleep"
            /\ UNCHANGED <<processed, recordFile, reports, fetchCount>>]_vars

\* A failed discovery ended its cycle in a run that had processed tokens.
C8_FailedCycleDone ==
    /\ pc = "sleep"
    /\ discoveryFailed
    /\ processed # {}
    /\ reports # <<>>

\* The reports of the current cycle.
CycleReports == SubSeq(reports, reportsAtPoll + 1, Len(reports))

\* Token i of the cycle is one the loop has to report.
Reportable(i) ==
    /\ tokens[i].mint # NoMint
    /\ tokens[i].mint \notin processedAtPoll
    /\ \A j \in 1..(i - 1) : tokens[j].mint # tokens[i].mint
    /\ tokens[i].mint \in available

RECURSIVE ExpectedMints(_)
ExpectedMints(n) ==
    IF n = 0 THEN <<>>
    ELSE IF Reportable(n)
         THEN Append(ExpectedMints(n - 1), tokens[n].mint)
         ELSE ExpectedMints(n - 1)

\* C9: the reports of a cycle are, in discovery order, one for each token
\* handled so far that has a mint, was not processed before its turn and
\* got a usable summary; at the end of the cycle that covers the whole
\* discovery result.
C9_ReportsInOrder ==
    pc \in Running =>
        /\ idx - 1 <= Len(tokens)
        /\ [i \in DOMAIN CycleReports |-> CycleReports[i].mint]
             = ExpectedMints(idx - 1)
        /\ pc = "sleep" => idx - 1 = Len(tokens)

\* A cycle reported two tokens of different tiers, the first not LOW.
C9_TwoReports ==
    /\ pc = "sleep"
    /\ Len(CycleReports) = 2
    /\ CycleReports[1].risk # "LOW"
    /\ CycleReports[2].risk = "LOW"

\* C10: in STOPPED, every processed mint that was classified LOW in this
\* run has a stored entry, and every mint whose entry this run wrote has a
\* report.
C10_NoTornToken ==
    pc = "stopped" =>
        \A m \in processed :
            /\ m \in lowThisRun => HasEntry(recordFile, m)
            /\ m \in writtenThisRun => m \in ReportedMints

C12_RecoveredLocally ==
    /\ failure \notin {"AttributeError", "KeyError"}
    /\ (pc \in Running /\ configFile.state \in {"corrupt", "nokey"}) =>
          /\ threshold = DefaultThreshold
          /\ interval = DefaultInterval

\* C15: the timeout of every discovery and summary request is the
\* api_timeout of the configuration loaded when monitoring started.
C15_TimeoutFromConfig ==
    requestTimeout # None => requestTimeout[1] = loadedTimeout

\* C13: whenever load_config finds the configuration file missing or
\* unparsable, whatever loads and edits the process made before, it returns
\* exactly {81, 30, 30}, and a file that was missing is created holding
\* exactly those values.
C13_DefaultsReturned ==
    [][(pc = "menu" /\ pc' = "edit" /\ configFile.state # "ok") =>
          /\ editConfig' = DefaultConfigValue
          /\ configFile.state = "missing" =>
                configFile' = OkFile(DefaultConfigValue)]_vars

WithinBounds(c) ==
    /\ ThresholdMin <= c.score_threshold /\ c.score_threshold <= ThresholdMax
    /\ IntervalMin <= c.polling_interval /\ c.polling_interval <= IntervalMax
    /\ TimeoutMin <= c.api_timeout /\ c.api_timeout <= TimeoutMax

\* The text typed for an option is not an integer within the option's
\* bounds.
Rejected(input) ==
    /\ input.choice \in 1..3
    /\ \/ input.text = None
       \/ input.choice = 1 /\ input.text # None /\
            (input.text[1] < ThresholdMin \/ input.text[1] > ThresholdMax)
       \/ input.choice = 2 /\ input.text # None /\
            (input.text[1] < IntervalMin \/ input.text[1] > IntervalMax)
       \/ input.choice = 3 /\ input.text # None /\
            (input.text[1] < TimeoutMin \/ input.text[1] > TimeoutMax)

\* C14: an edit whose value is out of bounds or not an integer prints a
\* validation failure and changes neither the configuration in memory nor
\* the configuration file; so every configuration edit_configuration holds
\* or writes, starting from one within bounds, is within bounds.
C14_InvalidEditRejected ==
    /\ [][(pc = "edit" /\ pc' = "edit" /\ Rejected(edit_input')) =>
            /\ message' \in {"out_of_bounds", "invalid_number"}
            /\ UNCHANGED <<editConfig, configFile, DEFAULT_CONFIG>>]_vars
    /\ [](/\ WithinBounds(editConfig)
          /\ WithinBounds(DEFAULT_CONFIG)
          /\ configFile.state = "ok" => WithinBounds(configFile.data))

\* An out-of-bounds value was just refused, after an earlier edit put the
\* threshold at its upper bound.
C14_RefusedAfterEdit ==
    /\ pc = "edit"
    /\ message = "out_of_bounds"
    /\ edit_input.choice = 1
    /\ editConfig.score_threshold = ThresholdMax
    /\ configFile = OkFile(editConfig)

\* C16: an error of the record file's write leaves append_if_not_exists
\* and start_monitoring as an OSError that ends the session: it is neither
\* treated as a cancellation nor followed by the report and the next
\* token.  A failed read is absorbed: the call goes on with an empty
\* collection.
C16_WriteErrorEndsSession ==
    [][(pc = "decide" /\ pc' # "stopped") =>
          /\ storeWrite' \in {"refused", "partial"} =>
                pc' = "crashed" /\ failure' = "OSError"
          /\ pc' = "crashed" => storeWrite' \in {"refused", "partial"}
          /\ storeRead' = "failed" =>
                /\ storeWrite' # "none"
                /\ storeWrite' = "ok" =>
                      pc' = "report" /\ recordFile' = OkFile(<<entry>>)]_vars

\* One call in which the read failed and was absorbed and the write was
\* then refused: the session is over with an OSError.
C16_ReadAbsorbedWriteRaised ==
    /\ pc = "crashed"
    /\ failure = "OSError"
    /\ storeRead = "failed"
    /\ storeWrite = "refused"

\* C17: the rewrite in append_if_not_exists is atomic: whatever happens
\* during the store step, the record file afterwards holds the complete
\* previous collection or the complete updated one.
C17_AtomicRewrite ==
    [][pc = "decide" =>
          \/ recordFile' = recordFile
          \/ /\ recordFile'.state = "ok"
             /\ \E readOk \in BOOLEAN :
                  recordFile'.data = Append(load_json(recordFile, readOk),
                                            entry)]_vars

\* C19: the tier printed in a token's report is the tier its storage
\* decision used, the recommendation is the table's image of that tier,
\* and the report says SAFE_TO_BUY exactly when append_if_not_exists was
\* called for the token.
C19_ReportMatchesStore ==
    [][(pc = "report" /\ pc' = "loop") =>
          LET r == reports'[Len(reports')]
          IN /\ Len(reports') = Len(reports) + 1
             /\ r.mint = entry.mint
             /\ r.risk = entry.risk
             /\ r.recommendation =
                  CASE r.risk = "LOW" -> "SAFE_TO_BUY"
                    [] r.risk = "MEDIUM" -> "CAUTION_ADVISED"
                    [] r.risk = "HIGH" -> "HIGH_RISK_DONT_BUY"
                    [] r.risk = "UNKNOWN" -> "CAUTION_ADVISED"
             /\ (r.recommendation = "SAFE_TO_BUY") <=> (storeRead # "none")]_vars

\* A run that reported one token as safe, after storing it, and another
\* one as not safe.
C19_SafeAndUnsafeReported ==
    \E i, j \in DOMAIN reports :
        /\ reports[i].recommendation = "SAFE_TO_BUY"
        /\ reports[i].mint \in writtenThisRun
        /\ reports[j].recommendation # "SAFE_TO_BUY"

\* C18: an entry that a call of append_if_not_exists stored goes missing
\* from the record file only when two monitors share the file and a save
\* of one falls between the load and the save of the other; with a single
\* monitor no stored entry is ever missing.
LostUpdate == \E m \in completed : ~HasEntry(recordFile, m)

C18_LostOnlyByInterleaving ==
    LostUpdate => (Len(writers) >= 2 /\ raced)

\* Both monitors are between calls and the file lacks an entry one of
\* them appended.
C18_EntryOverwritten ==
    /\ LostUpdate
    /\ \A i \in DOMAIN writers : writers[i].at = "idle"

====
